---- MODULE Spec2Model ----
(***************************************************************************)
(* Request handling of apistar's two applications:                         *)
(*   ASyncIOApp (apistar/frameworks/asyncio.py) and                        *)
(*   WSGIApp    (apistar/frameworks/wsgi.py).                              *)
(*                                                                         *)
(* Text is a sequence of code points, bytes a sequence of 0..255.          *)
(* A handler result / exception detail is a tagged value (Data).           *)
(***************************************************************************)
EXTENDS Integers, Sequences, FiniteSets, TLC

----------------------------------------------------------------------------
(* Bounds *)

MaxLen == 2
MaxPerms == 2

----------------------------------------------------------------------------
(* Values *)

Apps == {"asyncio", "wsgi"}

NoCT == "<None>"
TextHtml == "text/html; charset=utf-8"
AppJson == "application/json"
TextPlain == "text/plain"

RECURSIVE SeqsUpTo(_, _)
SeqsUpTo(S, n) ==
    IF n = 0 THEN {<<>>}
    ELSE LET P == SeqsUpTo(S, n - 1)
         IN  P \cup {Append(p, x) : p \in {q \in P : Len(q) = n - 1}, x \in S}

Scalar(k, n, s) == [k |-> k, n |-> n, s |-> s]
Item(key, val) == [key |-> key, val |-> val]

Mk(k, n, s, d) == [k |-> k, n |-> n, s |-> s, d |-> d]
DNone == Mk("none", 0, <<>>, <<>>)
DStr(s) == Mk("str", 0, s, <<>>)
DBytes(b) == Mk("bytes", 0, b, <<>>)
DInt(n) == Mk("int", n, <<>>, <<>>)
DList(l) == Mk("list", 0, l, <<>>)
DDict(d) == Mk("dict", 0, <<>>, d)
DObj == Mk("obj", 0, <<>>, <<>>)

\* 'a', '"', 'e-acute', euro sign
Chars == {97, 34, 233, 8364}
Bytes == {0, 255}
Ints == {0, 7, 12}

KeyX == <<120>>
KeyMessage == <<109, 101, 115, 115, 97, 103, 101>>

Texts == SeqsUpTo(Chars, MaxLen)

Dicts ==
    { <<>>,
      << Item(KeyX, Scalar("int", 1, <<>>)) >>,
      << Item(KeyX, Scalar("str", 0, <<233>>)), Item(KeyMessage, Scalar("int", 12, <<>>)) >> }

DataValues ==
    {DNone, DObj}
      \cup {DStr(s) : s \in Texts}
      \cup {DBytes(b) : b \in SeqsUpTo(Bytes, MaxLen)}
      \cup {DInt(n) : n \in Ints}
      \cup {DList(l) : l \in SeqsUpTo({1, 20}, MaxLen)}
      \cup {DDict(d) : d \in Dicts}

----------------------------------------------------------------------------
(* str.encode('utf-8') *)

Utf8Char(c) ==
    IF c < 128 THEN <<c>>
    ELSE IF c < 2048 THEN <<192 + (c \div 64), 128 + (c % 64)>>
    ELSE <<224 + (c \div 4096), 128 + ((c \div 64) % 64), 128 + (c % 64)>>

RECURSIVE Utf8(_)
Utf8(s) == IF s = <<>> THEN <<>> ELSE Utf8Char(Head(s)) \o Utf8(Tail(s))

----------------------------------------------------------------------------
(* json.dumps with its defaults: ensure_ascii, separators (', ', ': ') *)

RECURSIVE Digits(_)
Digits(n) == IF n < 10 THEN <<48 + n>> ELSE Digits(n \div 10) \o <<48 + (n % 10)>>

HexDigit(h) == IF h < 10 THEN 48 + h ELSE 87 + h

JsonChar(c) ==
    IF c = 34 THEN <<92, 34>>
    ELSE IF c = 92 THEN <<92, 92>>
    ELSE IF c < 128 THEN <<c>>
    ELSE <<92, 117, HexDigit(c \div 4096), HexDigit((c \div 256) % 16),
           HexDigit((c \div 16) % 16), HexDigit(c % 16)>>

RECURSIVE JsonChars(_)
JsonChars(s) == IF s = <<>> THEN <<>> ELSE JsonChar(Head(s)) \o JsonChars(Tail(s))

JsonStr(s) == <<34>> \o JsonChars(s) \o <<34>>

JsonScalar(v) ==
    CASE v.k = "int" -> Digits(v.n)
      [] v.k = "str" -> JsonStr(v.s)
      [] OTHER -> <<110, 117, 108, 108>>

RECURSIVE JsonList(_)
JsonList(l) ==
    IF l = <<>> THEN <<>>
    ELSE Digits(Head(l)) \o (IF Tail(l) = <<>> THEN <<>> ELSE <<44, 32>> \o JsonList(Tail(l)))

RECURSIVE JsonItems(_)
JsonItems(d) ==
    IF d = <<>> THEN <<>>
    ELSE JsonStr(Head(d).key) \o <<58, 32>> \o JsonScalar(Head(d).val)
           \o (IF Tail(d) = <<>> THEN <<>> ELSE <<44, 32>> \o JsonItems(Tail(d)))

JsonDumps(data) ==
    CASE data.k = "list" -> <<91>> \o JsonList(data.s) \o <<93>>
      [] data.k = "dict" -> <<123>> \o JsonItems(data.d) \o <<125>>
      [] OTHER -> JsonScalar(data)

\* json.dumps raises TypeError on an object it cannot serialise
JsonSerialisable(data) == data.k \in {"none", "str", "int", "list", "dict"}

----------------------------------------------------------------------------
(* http.Response(content, status, headers, content_type) or a bare value *)

Response(content, status, headers, ct) ==
    [resp |-> TRUE, data |-> content, status |-> status, headers |-> headers, ct |-> ct]
Bare(data) ==
    [resp |-> FALSE, data |-> data, status |-> 0, headers |-> <<>>, ct |-> NoCT]

NoRet == Bare(Mk("unset", 0, <<>>, <<>>))

\* the (data, status, headers, content_type) unpacked at the top of finalize_response
Unpack(ret) == IF ret.resp THEN ret ELSE Response(ret.data, 200, <<>>, NoCT)

PassThrough(ret) == ret.resp /\ ret.ct # NoCT

finalize_raises(ret) == ~PassThrough(ret) /\ ~JsonSerialisable(Unpack(ret).data)
                           /\ Unpack(ret).data.k # "bytes"

\* the content type of a response without content: None in ASyncIOApp,
\* 'text/plain' in WSGIApp
EmptyContentType_None(app) == NoCT
EmptyContentType(app) == IF app = "asyncio" THEN NoCT ELSE TextPlain

\* 'not content and status == 200'
NoContent_AnyStatus(content, status) == content = <<>>
NoContent_Never(content, status) == FALSE
NoContent_Only204(content, status) == content = <<>> /\ status = 204
NoContent(content, status) == content = <<>> /\ status = 200

finalize_response(app, ret) ==
    IF PassThrough(ret) THEN ret
    ELSE LET u == Unpack(ret)
             content == CASE u.data.k = "none" -> <<>>
                          [] u.data.k = "str" -> Utf8(u.data.s)
                          [] u.data.k = "bytes" -> u.data.s
                          [] OTHER -> Utf8(JsonDumps(u.data))
             ct == CASE u.data.k = "none" -> EmptyContentType(app)
                     [] u.data.k = "str" -> TextHtml
                     [] u.data.k = "bytes" -> TextHtml
                     [] OTHER -> AppJson
         IN  IF NoContent(content, u.status)
             THEN Response(DBytes(content), 204, u.headers, EmptyContentType(app))
             ELSE Response(DBytes(content), u.status, u.headers, ct)

----------------------------------------------------------------------------
(* apistar.exceptions: HTTPException(detail, status_code) and subclasses *)

Exc(cls, status_code, detail, location) ==
    [cls |-> cls, status_code |-> status_code, detail |-> detail, location |-> location]

NoExc == Exc("None", 0, DNone, "")
NotFound == Exc("NotFound", 404, DStr(<<78, 111, 116, 32, 102, 111, 117, 110, 100>>), "")
MethodNotAllowed ==
    Exc("MethodNotAllowed", 405,
        DStr(<<77, 101, 116, 104, 111, 100, 32, 110, 111, 116, 32, 97, 108, 108, 111, 119, 101, 100>>), "")
Forbidden == Exc("Forbidden", 403, DStr(<<70, 111, 114, 98, 105, 100, 100, 101, 110>>), "")
TypeError == Exc("TypeError", 0, DNone, "")
ValueError == Exc("ValueError", 0, DNone, "")

IsFound(exc) == exc.cls = "Found"
IsHTTPException(exc) ==
    exc.cls \in {"HTTPException", "Found", "NotFound", "MethodNotAllowed", "Forbidden"}

exception_handler_raises_Never(exc) == FALSE
exception_handler_raises(exc) == ~IsFound(exc) /\ ~IsHTTPException(exc)

exception_handler_NoMessage(exc) ==
    IF IsFound(exc)
    THEN Response(DStr(<<>>), exc.status_code, << <<"Location", exc.location>> >>, NoCT)
    ELSE Response(exc.detail, exc.status_code, <<>>, NoCT)

exception_handler(exc) ==
    IF IsFound(exc)
    THEN Response(DStr(<<>>), exc.status_code, << <<"Location", exc.location>> >>, NoCT)
    ELSE IF exc.detail.k = "str"
         THEN Response(DDict(<< Item(KeyMessage, Scalar("str", 0, exc.detail.s)) >>),
                       exc.status_code, <<>>, NoCT)
         ELSE Response(exc.detail, exc.status_code, <<>>, NoCT)

----------------------------------------------------------------------------
(* http.ResponseHeaders: an ordered list of (key, value), keys compared    *)
(* without regard to case; a response's own headers are a dict             *)

Lower(k) ==
    CASE k = "Location" -> "location"
      [] k = "Content-Type" -> "content-type"
      [] OTHER -> k

RECURSIVE HeadersRemove(_, _)
HeadersRemove(h, key) ==
    IF h = <<>> THEN <<>>
    ELSE IF Lower(Head(h)[1]) = Lower(key) THEN HeadersRemove(Tail(h), key)
         ELSE <<Head(h)>> \o HeadersRemove(Tail(h), key)

RECURSIVE HeadersSet(_, _, _)
HeadersSet(h, key, value) ==
    IF h = <<>> THEN << <<key, value>> >>
    ELSE IF Lower(Head(h)[1]) = Lower(key)
         THEN << <<key, value>> >> \o HeadersRemove(Tail(h), key)
         ELSE <<Head(h)>> \o HeadersSet(Tail(h), key, value)

RECURSIVE HeadersUpdate(_, _)
HeadersUpdate(h, d) ==
    IF d = <<>> THEN h
    ELSE HeadersUpdate(HeadersSet(h, Head(d)[1], Head(d)[2]), Tail(d))

\* str.encode() of a header key or value in the reply message
Encode(s) == [bytes |-> s]

RECURSIVE EncodeHeaders(_)
EncodeHeaders(h) ==
    IF h = <<>> THEN <<>>
    ELSE << <<Encode(Head(h)[1]), Encode(Head(h)[2])>> >> \o EncodeHeaders(Tail(h))

\* werkzeug.http.HTTP_STATUS_CODES
Reason(code) ==
    CASE code = 200 -> "OK"
      [] code = 204 -> "No Content"
      [] code = 302 -> "Found"
      [] code = 400 -> "Bad Request"
      [] code = 403 -> "Forbidden"
      [] code = 404 -> "Not Found"
      [] code = 405 -> "Method Not Allowed"
      [] OTHER -> ""

\* "%d %s" % (code, msg), or str(code) for a code outside the table
STATUS_TEXT(code) == [code |-> code, text |-> Reason(code)]

NoReply == [sent |-> FALSE, status |-> [code |-> 0, text |-> ""], headers |-> <<>>,
            content |-> [chunks |-> FALSE, data |-> DNone]]

\* the response_message sent on channels['reply']
UMIReply(response, headers) ==
    [sent |-> TRUE, status |-> [code |-> response.status, text |-> "-"],
     headers |-> EncodeHeaders(headers),
     content |-> [chunks |-> FALSE, data |-> response.data]]

\* start_response(status_text, list(headers)) and the returned content
WSGIReply(response, headers) ==
    [sent |-> TRUE, status |-> STATUS_TEXT(response.status),
     headers |-> headers,
     content |-> [chunks |-> response.data.k \in {"bytes", "str"}, data |-> response.data]]

----------------------------------------------------------------------------
(* Handlers, permissions, settings *)

Req == {1, 2}

\* a permission sequence: None, or the results its has_permission calls give
Perms(none, seq) == [set |-> TRUE, none |-> none, seq |-> seq]
PermsNone == Perms(TRUE, <<>>)
PermsUnset == [set |-> FALSE, none |-> TRUE, seq |-> <<>>]
PermSeqs == {Perms(FALSE, q) : q \in SeqsUpTo(BOOLEAN, MaxPerms)}

\* a routed view function; hasattr says whether it carries a 'permissions' attribute
HandlerRec(name, hasattr, permissions) ==
    [name |-> name, hasattr |-> hasattr, permissions |-> permissions]
NoHandler == HandlerRec("None", FALSE, PermsNone)
Handlers ==
    {HandlerRec("view", FALSE, PermsNone)}
      \cup {HandlerRec("view", TRUE, p) : p \in PermSeqs \cup {PermsNone}}

SettingsValues == {PermsNone, Perms(FALSE, <<TRUE>>), Perms(FALSE, <<FALSE>>)}

\* what a handler does when invoked: writes to the injected ResponseHeaders,
\* then returns a value or raises
Behaviour(pre, raises, ret, exc) == [pre |-> pre, raises |-> raises, ret |-> ret, exc |-> exc]
NoBehaviour == Behaviour(<<>>, FALSE, NoRet, NoExc)
Returns(ret) == Behaviour(<<>>, FALSE, ret, NoExc)
Raises(pre, exc) == Behaviour(pre, TRUE, NoRet, exc)

OldLocation == << <<"location", "/old">> >>

Behaviours ==
    { Returns(Bare(DNone)),
      Returns(Bare(DStr(<<97>>))),
      Returns(Bare(DDict(<< Item(KeyX, Scalar("int", 1, <<>>)) >>))),
      Returns(Bare(DObj)),
      Returns(Response(DBytes(<<>>), 200, <<>>, TextPlain)),
      Raises(<<>>, Exc("Found", 302, DNone, "/new")),
      Raises(OldLocation, Exc("Found", 302, DNone, "/new")),
      Raises(<<>>, Exc("HTTPException", 400, DStr(<<97>>), "")),
      Raises(<<>>, Exc("HTTPException", 200, DNone, "")),
      Raises(<<>>, Exc("HTTPException", 404, DObj, "")),
      Raises(<<>>, ValueError) }

\* router.lookup(path, method): a handler with its keyword arguments, or a failure
RouteResults ==
    {[exc |-> e, handler |-> NoHandler] : e \in {NotFound, MethodNotAllowed}}
      \cup {[exc |-> NoExc, handler |-> h] : h \in Handlers}
NoRoute == [exc |-> NoExc, handler |-> NoHandler]

----------------------------------------------------------------------------
(* State *)

VARIABLES
    preloaded,   \* per application: preloaded_state (Router instance, Settings)
    pc,          \* per request: position in __call__
    appOf,       \* per request: the application called
    sref,        \* per request: local 'state' (identity of the state dict)
    href,        \* per request: local 'headers' (identity of the ResponseHeaders)
    state,       \* state dicts by identity
    hdrs,        \* ResponseHeaders objects by identity
    funcs,       \* per request: local 'funcs'
    idx,         \* per request: the function of funcs the injector is at
    handler,     \* per request: local 'handler'
    perms,       \* per request: local 'permissions' of check_permissions
    response,    \* per request: local 'response'
    reply,       \* per request: what was sent to the protocol layer
    route,       \* per request: what router.lookup gave
    beh,         \* per request: what the handler did
    log,         \* per request: functions run, in order, with their outcome
    permCalls,   \* per request: permissions whose has_permission was invoked
    seen,        \* per request: the preloaded instances it was handed
    after,       \* per request: the requests that had ended when it was called
    fpc, fapp, fin, fexc, fout, fout2

pvars == <<preloaded, pc, appOf, sref, href, state, hdrs, funcs, idx, handler, perms,
           response, reply, route, beh, log, permCalls, seen, after>>
fvars == <<fpc, fapp, fin, fexc, fout, fout2>>
vars == <<pvars, fvars>>

StateDict(h, kwargs, exc, headers, ret) ==
    [handler |-> h, kwargs |-> kwargs, exc |-> exc, response_headers |-> headers, ret |-> ret]
NoState == StateDict(NoHandler, 0, NoExc, 0, NoRet)

\* a fresh dict / ResponseHeaders object per call of __call__
NewState_Shared(r) == 1
NewState(r) == r
NewHeaders(r) == r

MainFuncs(app) ==
    IF app = "asyncio" THEN <<"check_permissions", "handler", "finalize_response">>
    ELSE <<"handler", "finalize_response">>
ErrorFuncs == <<"exception_handler", "finalize_response">>

SetExc_Lost(st, exc) == st
SetExc(st, exc) == [st EXCEPT !.exc = exc]

\* getattr(handler, 'permissions', settings.get('PERMISSIONS', None))
Permissions_Default(h, settings) == settings
Permissions(h, settings) == IF h.hasattr THEN h.permissions ELSE settings

Event(seq, f, out) == [seq |-> seq, f |-> f, out |-> out]

RouterOf(app) == [cls |-> "WerkzeugRouter", app |-> app]
NoSeen == [router |-> [cls |-> "None", app |-> ""], settings |-> PermsUnset]

PInit ==
    /\ \E s \in SettingsValues :
          preloaded = [a \in Apps |-> [router |-> RouterOf(a), settings |-> s]]
    /\ pc = [r \in Req |-> "idle"]
    /\ appOf = [r \in Req |-> "asyncio"]
    /\ sref = [r \in Req |-> 0]
    /\ href = [r \in Req |-> 0]
    /\ state = [i \in Req |-> NoState]
    /\ hdrs = [i \in Req |-> <<>>]
    /\ funcs = [r \in Req |-> <<>>]
    /\ idx = [r \in Req |-> 0]
    /\ handler = [r \in Req |-> NoHandler]
    /\ perms = [r \in Req |-> PermsUnset]
    /\ response = [r \in Req |-> NoRet]
    /\ reply = [r \in Req |-> NoReply]
    /\ route = [r \in Req |-> NoRoute]
    /\ beh = [r \in Req |-> NoBehaviour]
    /\ log = [r \in Req |-> <<>>]
    /\ permCalls = [r \in Req |-> <<>>]
    /\ seen = [r \in Req |-> NoSeen]
    /\ after = [r \in Req |-> {}]

FIdle ==
    /\ fpc = "off" /\ fapp = "asyncio" /\ fin = NoRet /\ fexc = NoExc
    /\ fout = NoRet /\ fout2 = NoRet

----------------------------------------------------------------------------
(* __call__ and the functions it runs through the injector *)

St(r) == state[sref[r]]
CurFunc(r) == IF pc[r] = "run" THEN funcs[r][idx[r]] ELSE "-"
InError(r) == funcs[r] = ErrorFuncs
SeqName(r) == IF InError(r) THEN "error" ELSE "main"

\* an exception leaves run_all: the except clause of __call__ when it was the
\* main sequence, out of __call__ when it was the error sequence
Raise(r, f, exc, st) ==
    /\ log' = [log EXCEPT ![r] = Append(@, Event(SeqName(r), f, "raise"))]
    /\ IF InError(r)
       THEN /\ pc' = [pc EXCEPT ![r] = "raised"]
            /\ state' = st
            /\ UNCHANGED <<funcs, idx>>
       ELSE /\ state' = [st EXCEPT ![sref[r]] = SetExc(@, exc)]
            /\ funcs' = [funcs EXCEPT ![r] = ErrorFuncs]
            /\ idx' = [idx EXCEPT ![r] = 1]
            /\ pc' = [pc EXCEPT ![r] = "run"]

\* a function returned: the injector goes on to the next one
Return(r, f) ==
    /\ log' = [log EXCEPT ![r] = Append(@, Event(SeqName(r), f, "ok"))]
    /\ idx' = [idx EXCEPT ![r] = @ + 1]
    /\ UNCHANGED <<pc, funcs>>

Call(r) ==
    /\ pc[r] = "idle"
    /\ \E a \in Apps : appOf' = [appOf EXCEPT ![r] = a]
    /\ href' = [href EXCEPT ![r] = NewHeaders(r)]
    /\ hdrs' = [hdrs EXCEPT ![NewHeaders(r)] = <<>>]
    /\ sref' = [sref EXCEPT ![r] = NewState(r)]
    /\ state' = [state EXCEPT ![NewState(r)] =
                    StateDict(NoHandler, 0, NoExc, NewHeaders(r), NoRet)]
    /\ pc' = [pc EXCEPT ![r] = "lookup"]
    /\ after' = [after EXCEPT ![r] = {q \in Req : pc[q] \in {"done", "raised"}}]
    /\ UNCHANGED <<preloaded, funcs, idx, handler, perms, response, reply, route, beh,
                   log, permCalls, seen, fvars>>

Lookup(r) ==
    /\ pc[r] = "lookup"
    /\ \E res \in RouteResults :
         /\ route' = [route EXCEPT ![r] = res]
         /\ seen' = [seen EXCEPT ![r].router = preloaded[appOf[r]].router]
         /\ IF res.exc # NoExc
            THEN /\ Raise(r, "lookup", res.exc, state)
                 /\ UNCHANGED handler
            ELSE /\ handler' = [handler EXCEPT ![r] = res.handler]
                 /\ state' = [state EXCEPT ![sref[r]] =
                                 IF appOf[r] = "asyncio"
                                 THEN [@ EXCEPT !.handler = res.handler, !.kwargs = 1]
                                 ELSE [@ EXCEPT !.kwargs = 1]]
                 /\ funcs' = [funcs EXCEPT ![r] = MainFuncs(appOf[r])]
                 /\ idx' = [idx EXCEPT ![r] = 1]
                 /\ pc' = [pc EXCEPT ![r] = "run"]
                 /\ log' = [log EXCEPT ![r] = Append(@, Event("main", "lookup", "ok"))]
    /\ UNCHANGED <<preloaded, appOf, sref, href, hdrs, perms, response, reply, beh,
                   permCalls, after, fvars>>

\* check_permissions up to its loop
CheckPermissionsEnter(r) ==
    /\ CurFunc(r) = "check_permissions"
    /\ ~perms[r].set
    /\ LET settings == preloaded[appOf[r]].settings
           permissions == Permissions(St(r).handler, settings)
       IN  /\ seen' = [seen EXCEPT ![r].settings = settings]
           /\ perms' = [perms EXCEPT ![r] = permissions]
           /\ IF permissions.none
              THEN Return(r, "check_permissions")
              ELSE UNCHANGED <<pc, funcs, idx, log>>
    /\ UNCHANGED <<preloaded, appOf, sref, href, state, hdrs, handler, response, reply,
                   route, beh, permCalls, after, fvars>>

\* one turn of the loop of check_permissions
CheckPermissionsLoop(r) ==
    /\ CurFunc(r) = "check_permissions"
    /\ perms[r].set /\ ~perms[r].none
    /\ LET i == Len(permCalls[r]) + 1
       IN  IF i > Len(perms[r].seq)
           THEN /\ Return(r, "check_permissions")
                /\ UNCHANGED <<permCalls, state>>
           ELSE /\ permCalls' = [permCalls EXCEPT ![r] = Append(@, i)]
                /\ IF perms[r].seq[i]
                   THEN UNCHANGED <<pc, funcs, idx, log, state>>
                   ELSE Raise(r, "check_permissions", Forbidden, state)
    /\ UNCHANGED <<preloaded, appOf, sref, href, hdrs, handler, perms, response, reply,
                   route, beh, seen, after, fvars>>

Handler(r) ==
    /\ CurFunc(r) = "handler"
    /\ \E b \in Behaviours :
         /\ beh' = [beh EXCEPT ![r] = b]
         /\ hdrs' = [hdrs EXCEPT ![St(r).response_headers] = HeadersUpdate(@, b.pre)]
         /\ IF b.raises
            THEN Raise(r, "handler", b.exc, state)
            ELSE /\ state' = [state EXCEPT ![sref[r]].ret = b.ret]
                 /\ Return(r, "handler")
    /\ UNCHANGED <<preloaded, appOf, sref, href, handler, perms, response, reply, route,
                   permCalls, seen, after, fvars>>

ExceptionHandler(r) ==
    /\ CurFunc(r) = "exception_handler"
    /\ IF exception_handler_raises(St(r).exc)
       THEN Raise(r, "exception_handler", St(r).exc, state)
       ELSE /\ state' = [state EXCEPT ![sref[r]].ret = exception_handler(St(r).exc)]
            /\ Return(r, "exception_handler")
    /\ UNCHANGED <<preloaded, appOf, sref, href, hdrs, handler, perms, response, reply,
                   route, beh, permCalls, seen, after, fvars>>

FinalizeResponse(r) ==
    /\ CurFunc(r) = "finalize_response"
    /\ IF finalize_raises(St(r).ret)
       THEN /\ Raise(r, "finalize_response", TypeError, state)
            /\ UNCHANGED response
       ELSE /\ response' = [response EXCEPT ![r] = finalize_response(appOf[r], St(r).ret)]
            /\ log' = [log EXCEPT ![r] = Append(@, Event(SeqName(r), "finalize_response", "ok"))]
            /\ pc' = [pc EXCEPT ![r] = "reply"]
            /\ UNCHANGED <<state, funcs, idx>>
    /\ UNCHANGED <<preloaded, appOf, sref, href, hdrs, handler, perms, reply, route, beh,
                   permCalls, seen, after, fvars>>

\* headers.update(response.headers), then the content type
FinalHeaders(app, h, resp) ==
    LET h1 == HeadersUpdate(h, resp.headers)
    IN  IF app = "wsgi" \/ resp.ct # NoCT
        THEN HeadersSet(h1, "content-type", resp.ct)
        ELSE h1

ReplyOf(app, resp, h) == IF app = "asyncio" THEN UMIReply(resp, h) ELSE WSGIReply(resp, h)

\* the rest of __call__ after the try statement
Reply(r) ==
    /\ pc[r] = "reply"
    /\ LET h2 == FinalHeaders(appOf[r], hdrs[href[r]], response[r])
       IN  /\ hdrs' = [hdrs EXCEPT ![href[r]] = h2]
           /\ reply' = [reply EXCEPT ![r] = ReplyOf(appOf[r], response[r], h2)]
    /\ pc' = [pc EXCEPT ![r] = "done"]
    /\ UNCHANGED <<preloaded, appOf, sref, href, state, funcs, idx, handler, perms,
                   response, route, beh, log, permCalls, seen, after, fvars>>

Next ==
    \E r \in Req :
        \/ Call(r)
        \/ Lookup(r)
        \/ CheckPermissionsEnter(r)
        \/ CheckPermissionsLoop(r)
        \/ Handler(r)
        \/ ExceptionHandler(r)
        \/ FinalizeResponse(r)
        \/ Reply(r)

Init == PInit /\ FIdle

Spec == Init /\ [][Next]_vars

----------------------------------------------------------------------------
(* The functions on their own: a handler result through finalize_response  *)
(* (twice), an exception through exception_handler and finalize_response   *)

Statuses == {200, 204, 404}
HeaderDicts == {<<>>, << <<"Location", "/a">> >>}
ContentTypes == {NoCT, TextPlain, AppJson}

FinInputs ==
    {Bare(d) : d \in DataValues}
      \cup {Response(d, st, hd, ct) :
                d \in DataValues, st \in Statuses, hd \in HeaderDicts, ct \in ContentTypes}

FinExcs ==
    {Exc("Found", 302, DNone, l) : l \in {"/a", "/b"}}
      \cup {Exc("HTTPException", st, d, "") : st \in {200, 403, 404}, d \in DataValues}
      \cup {ValueError}

FinInit ==
    /\ PInit /\ preloaded["asyncio"].settings = PermsNone
    /\ fpc = "start"
    /\ fapp \in Apps
    /\ \/ fin \in FinInputs /\ fexc = NoExc
       \/ fin = NoRet /\ fexc \in FinExcs
    /\ fout = NoRet
    /\ fout2 = NoRet

FinExceptionHandler ==
    /\ fpc = "start" /\ fexc # NoExc
    /\ IF exception_handler_raises(fexc)
       THEN fpc' = "raised" /\ UNCHANGED fin
       ELSE fpc' = "handled" /\ fin' = exception_handler(fexc)
    /\ UNCHANGED <<fapp, fexc, fout, fout2, pvars>>

FinFinalize ==
    /\ \/ fpc = "start" /\ fexc = NoExc
       \/ fpc = "handled"
    /\ IF finalize_raises(fin)
       THEN fpc' = "raised" /\ UNCHANGED fout
       ELSE fpc' = "final" /\ fout' = finalize_response(fapp, fin)
    /\ UNCHANGED <<fapp, fin, fexc, fout2, pvars>>

FinFinalizeAgain ==
    /\ fpc = "final"
    /\ ~finalize_raises(fout)
    /\ fout2' = finalize_response(fapp, fout)
    /\ fpc' = "final2"
    /\ UNCHANGED <<fapp, fin, fexc, fout, pvars>>

FinNext == FinExceptionHandler \/ FinFinalize \/ FinFinalizeAgain

FinSpec == FinInit /\ [][FinNext]_vars

----------------------------------------------------------------------------
(* What a request must be answered with, from its own inputs alone: the    *)
(* application, what the router gave, the handler's permissions and what   *)
(* the handler does                                                        *)

Ended(r) == pc[r] \in {"done", "raised"}
Events(r, seq, f) == {i \in DOMAIN log[r] : log[r][i].seq = seq /\ log[r][i].f = f}
HandlerCalls(r) == Cardinality(Events(r, "main", "handler") \cup Events(r, "error", "handler"))
MainRaises(r) == {i \in DOMAIN log[r] : log[r][i].seq = "main" /\ log[r][i].out = "raise"}
Body(rep) == rep.content.data.s

OwnPermissions(r) ==
    IF handler[r].hasattr THEN handler[r].permissions ELSE preloaded[appOf[r]].settings
HasFailing(p) == ~p.none /\ \E i \in DOMAIN p.seq : ~p.seq[i]

\* the exception the main sequence of r ends with, NoExc when it ends well
OwnExc(r) ==
    IF route[r].exc # NoExc THEN route[r].exc
    ELSE IF appOf[r] = "asyncio" /\ HasFailing(OwnPermissions(r)) THEN Forbidden
    ELSE IF beh[r].raises THEN beh[r].exc
    ELSE IF ~PassThrough(beh[r].ret) /\ beh[r].ret.data.k = "obj" THEN TypeError
    ELSE NoExc

OwnHeaders(r) ==
    IF route[r].exc = NoExc /\ ~(appOf[r] = "asyncio" /\ HasFailing(OwnPermissions(r)))
    THEN beh[r].pre ELSE <<>>

ExpectedReply(r) ==
    LET e == OwnExc(r)
        ret == IF e = NoExc THEN beh[r].ret ELSE exception_handler(e)
    IN  IF e # NoExc /\ (~IsHTTPException(e) \/ finalize_raises(ret))
        THEN NoReply
        ELSE LET resp == finalize_response(appOf[r], ret)
             IN  ReplyOf(appOf[r], resp, FinalHeaders(appOf[r], OwnHeaders(r), resp))

ForbiddenBody ==
    <<123, 34, 109, 101, 115, 115, 97, 103, 101, 34, 58, 32,
      34, 70, 111, 114, 98, 105, 100, 100, 101, 110, 34, 125>>

----------------------------------------------------------------------------
(* Claims checked under Spec *)

\* C1: in both applications, a request routed to a handler whose permissions
\* (its own, or else the PERMISSIONS setting) contain one that refuses never
\* has its handler invoked, and is answered with status 403 and the body
\* {"message": "Forbidden"}.
C1_ForbiddenBeforeHandler ==
    \A r \in Req :
        (pc[r] \notin {"idle", "lookup"} /\ route[r].exc = NoExc
           /\ HasFailing(OwnPermissions(r)))
        => /\ HandlerCalls(r) = 0
           /\ pc[r] = "done" =>
                /\ reply[r].status.code = 403
                /\ Body(reply[r]) = ForbiddenBody

\* C2: once router.lookup or a function of the main sequence raises, no later
\* function of the main sequence runs (the handler is not reached after a
\* routing failure and never runs twice), the error sequence runs exactly once
\* on the same state dict with the raised exception in 'exc'; without an
\* exception the error sequence never runs and 'exc' stays None.
C2_ErrorSequence ==
    \A r \in Req :
        pc[r] # "idle" =>
          /\ \A i \in MainRaises(r) : \A j \in DOMAIN log[r] : j > i => log[r][j].seq = "error"
          /\ HandlerCalls(r) <= 1
          /\ route[r].exc # NoExc => HandlerCalls(r) = 0
          /\ Events(r, "error", "handler") = {} /\ Events(r, "error", "check_permissions") = {}
          /\ Cardinality(Events(r, "error", "exception_handler")) <= 1
          /\ Cardinality(Events(r, "error", "finalize_response")) <= 1
          /\ sref[r] = r
          /\ IF MainRaises(r) # {}
             THEN /\ state[sref[r]].exc = OwnExc(r)
                  /\ state[sref[r]].exc # NoExc
                  /\ funcs[r] = <<"exception_handler", "finalize_response">>
                  /\ Ended(r) => Cardinality(Events(r, "error", "exception_handler")) = 1
             ELSE /\ state[sref[r]].exc = NoExc
                  /\ \A i \in DOMAIN log[r] : log[r][i].seq = "main"

C2_Witness ==
    /\ pc[1] = "done"
    /\ \E i \in MainRaises(1) : log[1][i].f = "handler"
    /\ pc[2] = "done" /\ route[2].exc = NotFound

\* C3: an exception on the error path that is no HTTPException (nor Found) is
\* raised again by exception_handler and leaves __call__ without any reply
\* being sent; the application's preloaded state is as before, and a request
\* handled afterwards is answered as its own inputs alone determine.
C3_Unhandled ==
    \A r \in Req :
        (pc[r] \in {"done", "raised", "reply"} /\ state[sref[r]].exc # NoExc
           /\ ~IsHTTPException(state[sref[r]].exc))
        => /\ pc[r] = "raised"
           /\ ~reply[r].sent
           /\ log[r][Len(log[r])] = Event("error", "exception_handler", "raise")
           /\ \A a \in Apps : preloaded[a].router = RouterOf(a)
           /\ \A q \in Req : (r \in after[q] /\ pc[q] = "done") => reply[q] = ExpectedReply(q)

C3_Witness ==
    /\ pc[1] = "raised" /\ state[sref[1]].exc = ValueError
    /\ 1 \in after[2] /\ appOf[2] = appOf[1]
    /\ pc[2] = "done" /\ reply[2].sent

C8_Isolation ==
    \A r \in Req :
        (appOf[r] = "asyncio" /\ pc[r] # "idle") =>
          /\ \A q \in Req \ {r} : pc[q] # "idle" => sref[q] # sref[r] /\ href[q] # href[r]
          /\ state[sref[r]].response_headers = href[r]
          /\ state[sref[r]].handler = handler[r]
          /\ state[sref[r]].kwargs = (IF handler[r] = NoHandler THEN 0 ELSE 1)
          /\ state[sref[r]].exc = (IF MainRaises(r) = {} THEN NoExc ELSE OwnExc(r))
          /\ pc[r] \in {"run", "reply", "raised"} => hdrs[href[r]] = beh[r].pre
          /\ pc[r] = "done" => reply[r] = ExpectedReply(r)
          /\ pc[r] # "done" => ~reply[r].sent
          /\ \A q \in Req \ {r} :
                (appOf[q] = "asyncio" /\ pc[q] \notin {"idle", "lookup"}
                   /\ pc[r] \notin {"idle", "lookup"})
                => seen[q].router = seen[r].router
          /\ seen[r].settings.set => seen[r].settings = preloaded["asyncio"].settings

C8_Witness ==
    /\ appOf[1] = "asyncio" /\ appOf[2] = "asyncio"
    /\ after[1] = {} /\ after[2] = {}
    /\ pc[1] = "done" /\ pc[2] = "done"
    /\ beh[1] # beh[2] /\ beh[1] # NoBehaviour /\ beh[2] # NoBehaviour
    /\ reply[1] # reply[2]

\* C9: ASyncIOApp.check_permissions calls has_permission on the handler's
\* permissions (its own attribute if it has one, else the PERMISSIONS setting)
\* in order, one at a time; the first refusal raises Forbidden and no later
\* permission is called; if all allow, or the sequence is None or empty, it
\* returns and the handler runs next.
C9_CheckPermissions ==
    \A r \in Req :
        (appOf[r] = "asyncio" /\ pc[r] \notin {"idle", "lookup"} /\ route[r].exc = NoExc) =>
          LET p == OwnPermissions(r)
              k == Len(permCalls[r])
              ok == Events(r, "main", "check_permissions")
          IN  /\ \A i \in 1..k : permCalls[r][i] = i
              /\ p.none => k = 0
              /\ k <= Len(p.seq)
              /\ \A i \in 1..k : i < k => p.seq[i]
              /\ (k > 0 /\ ~p.seq[k]) =>
                    /\ log[r][2] = Event("main", "check_permissions", "raise")
                    /\ state[sref[r]].exc = Forbidden
                    /\ HandlerCalls(r) = 0
              /\ \A i \in ok :
                    /\ log[r][i].out = "raise" <=> (k > 0 /\ ~p.seq[k])
                    /\ log[r][i].out = "ok" => (p.none \/ k = Len(p.seq))
                    /\ (log[r][i].out = "ok" /\ Len(log[r]) > i) => log[r][i + 1].f = "handler"
              /\ HandlerCalls(r) > 0 =>
                    /\ log[r][2] = Event("main", "check_permissions", "ok")
                    /\ p.none \/ (k = Len(p.seq) /\ \A i \in 1..k : p.seq[i])
              /\ Ended(r) => ok # {}

C9_Witness ==
    /\ appOf[1] = "asyncio" /\ pc[1] = "done"
    /\ handler[1].hasattr /\ handler[1].permissions = Perms(FALSE, <<TRUE, FALSE>>)
    /\ permCalls[1] = <<1, 2>>
    /\ appOf[2] = "asyncio" /\ pc[2] = "done"
    /\ ~handler[2].hasattr /\ HandlerCalls(2) = 1

----------------------------------------------------------------------------
(* Claims checked under FinSpec *)

Finalized == fpc \in {"final", "final2"}
EmptyBody(resp) == resp.data.k \in {"bytes", "str"} /\ resp.data.s = <<>>
MessageOf(text) == DDict(<< Item(KeyMessage, Scalar("str", 0, text)) >>)

\* C4 as stated: every HTTPException other than Found, whatever its status
\* code and detail, gives a response with the exception's status code and the
\* structured encoding of {message: detail} for a text detail, of the detail
\* otherwise.
C4_AsStated ==
    (Finalized /\ fexc.cls = "HTTPException")
    => /\ fout.status = fexc.status_code
       /\ fout.data = DBytes(Utf8(JsonDumps(IF fexc.detail.k = "str"
                                             THEN MessageOf(fexc.detail.s)
                                             ELSE fexc.detail)))

\* C4 amended: an HTTPException other than Found whose detail is None, text,
\* bytes or JSON-serialisable data gives a response whose status is the
\* exception's status code, except that status 200 with an empty body becomes
\* 204; its body is the JSON encoding of {message: detail} for a text detail,
\* the JSON encoding of the detail for other structured data, empty for None
\* and the detail itself for bytes.
C4_HTTPException ==
    (fpc \in {"handled", "final", "final2", "raised"} /\ fexc.cls = "HTTPException")
    => LET d == fexc.detail
           body == CASE d.k = "none" -> <<>>
                     [] d.k = "bytes" -> d.s
                     [] d.k = "str" -> Utf8(JsonDumps(MessageOf(d.s)))
                     [] OTHER -> Utf8(JsonDumps(d))
       IN  IF d.k = "obj" THEN ~Finalized
           ELSE fpc # "raised" /\
                (Finalized =>
                   /\ fout.data = DBytes(body)
                   /\ fout.status = (IF body = <<>> /\ fexc.status_code = 200
                                     THEN 204 ELSE fexc.status_code)
                   /\ fout.headers = <<>>
                   /\ d.k \in {"str", "int", "list", "dict"} => fout.ct = "application/json"
                   /\ d = DStr(<<97>>) =>
                        fout.data.s = <<123, 34, 109, 101, 115, 115, 97, 103, 101, 34,
                                        58, 32, 34, 97, 34, 125>>)

C4_Witness ==
    /\ fpc = "final" /\ fexc = Exc("HTTPException", 404, DStr(<<97>>), "")
    /\ fout.status = 404

\* C6 as stated: finalising a finalised response changes nothing, for every
\* handler result, in both applications.
C6_AsStated ==
    (fpc = "final2" /\ fexc = NoExc) => fout2 = fout

\* C6 amended: finalising a finalised response changes nothing in WSGIApp for
\* every handler result, and in ASyncIOApp for every handler result whose
\* finalised response has a content type; in ASyncIOApp a finalised response
\* without a content type is finalised again to the same content, status and
\* headers with content type 'text/html; charset=utf-8'.
C6_Idempotent ==
    (fpc = "final2" /\ fexc = NoExc)
    => /\ fapp = "wsgi" => fout2 = fout
       /\ fout.ct # "<None>" => fout2 = fout
       /\ fout.ct = "<None>" =>
            /\ fapp = "asyncio"
            /\ fout2 = [fout EXCEPT !.ct = "text/html; charset=utf-8"]

C6_Witness ==
    /\ fpc = "final2" /\ fexc = NoExc /\ fapp = "wsgi"
    /\ fin = Bare(DNone) /\ fout2 = fout /\ fout.status = 204

\* C7: for a handler result that is not a Response with a content type,
\* finalize_response gives: status 200 and no headers by default for a bare
\* value; an empty body for None; the UTF-8 bytes and 'text/html;
\* charset=utf-8' for text; the bytes themselves with that content type for
\* bytes; the UTF-8 bytes of the JSON text and 'application/json' for anything
\* else; and for an empty body with status 200, status 204 and the content
\* type cleared (None in ASyncIOApp, 'text/plain' in WSGIApp).
C7_Table ==
    (Finalized /\ fexc = NoExc /\ ~(fin.resp /\ fin.ct # "<None>"))
    => LET d == fin.data
           st == IF fin.resp THEN fin.status ELSE 200
           body == CASE d.k = "none" -> <<>>
                     [] d.k = "str" -> Utf8(d.s)
                     [] d.k = "bytes" -> d.s
                     [] OTHER -> Utf8(JsonDumps(d))
       IN  /\ fout.resp /\ fout.data = DBytes(body)
           /\ fout.headers = (IF fin.resp THEN fin.headers ELSE <<>>)
           /\ IF body = <<>> /\ st = 200
              THEN /\ fout.status = 204
                   /\ fout.ct = (IF fapp = "asyncio" THEN "<None>" ELSE "text/plain")
              ELSE /\ fout.status = st
                   /\ d.k \in {"str", "bytes"} => fout.ct = "text/html; charset=utf-8"
                   /\ d.k \in {"int", "list", "dict"} => fout.ct = "application/json"
           /\ fin = Bare(DDict(<< Item(KeyX, Scalar("int", 1, <<>>)) >>)) =>
                /\ fout.status = 200
                /\ fout.data.s = <<123, 34, 120, 34, 58, 32, 49, 125>>
           /\ fin = Bare(DNone) => fout.status = 204 /\ fout.data.s = <<>>
           /\ d = DStr(<<233>>) => fout.data.s = <<195, 169>>
           /\ d = DStr(<<8364>>) => fout.data.s = <<226, 130, 172>>
           /\ d = DList(<<1, 20>>) => fout.data.s = <<91, 49, 44, 32, 50, 48, 93>>
           /\ (d.k = "dict" /\ Len(d.d) = 2) =>
                fout.data.s = <<123, 34, 120, 34, 58, 32, 34, 92, 117, 48, 48, 101, 57, 34,
                                44, 32, 34, 109, 101, 115, 115, 97, 103, 101, 34, 58, 32,
                                49, 50, 125>>

C7_Witness ==
    /\ fpc = "final" /\ fexc = NoExc
    /\ fin = Response(DStr(<<>>), 200, << <<"Location", "/a">> >>, NoCT)
    /\ fout.status = 204

\* C10 as stated: no response returned by finalize_response has an empty body
\* and status 200, Responses that came with a content type included.
C10_AsStated ==
    (Finalized /\ fexc = NoExc /\ EmptyBody(fout)) => fout.status # 200

\* C10 amended: for every handler result that is not a Response with a content
\* type already set, a response returned by finalize_response with an empty
\* body has a status other than 200.
C10_EmptyNot200 ==
    (Finalized /\ fexc = NoExc /\ ~(fin.resp /\ fin.ct # "<None>") /\ EmptyBody(fout))
    => fout.status # 200

C10_Witness ==
    /\ fpc = "final" /\ fexc = NoExc /\ fin = Bare(DStr(<<>>))
    /\ EmptyBody(fout) /\ fout.status = 204

====
